---- MODULE Spec2Model ----
(***************************************************************************)
(* Model of plugin/shim/clap_entry.c: the CLAP entry table, the plugin      *)
(* factory and the plugin callbacks that forward to the embedded OCaml      *)
(* runtime through named values.                                            *)
(*                                                                         *)
(* The C file keeps no lifecycle state of its own.  Its state is: the five  *)
(* function-static caches of named values, the heap blocks calloc'ed by     *)
(* factory_create_plugin (plugin struct + daw_bridge_state_t), and, on the  *)
(* runtime side, the named-value table and the set of global roots.  The    *)
(* host is free to call any callback of any pointer it was ever given, in   *)
(* any order.                                                               *)
(***************************************************************************)
EXTENDS Integers, Sequences, FiniteSets, TLC

\* ---- bounds ----
MaxInst == 1      \* plugin objects the host creates in one run
MaxHandle == 2    \* distinct non-unit values the runtime's init may return
MaxStartup == 2   \* calls of clap_entry.init in one run

\* ---- program constants ----
Val_unit == 1     \* OCaml's () as an immediate value
NULL == 0
PluginCount == 1
PROCESS_CONTINUE == 0

DescriptorId == "com.dancer.daw-bridge"
FactoryId == "clap.plugin-factory"
PluginIds == {DescriptorId, "com.example.unknown"}
FactoryIds == {FactoryId, "clap.other-factory"}

N_INIT == "daw_bridge_init"
N_DESTROY == "daw_bridge_destroy"
N_ACTIVATE == "daw_bridge_activate"
N_DEACTIVATE == "daw_bridge_deactivate"
N_PROCESS == "daw_bridge_process"
Names == {N_INIT, N_DESTROY, N_ACTIVATE, N_DEACTIVATE, N_PROCESS}

Insts == 1..MaxInst
Hosts == {11, 12}
RuntimeValues == Val_unit..(Val_unit + MaxHandle)
SampleRates == {44100, 48000}
MinFrames == {64}
MaxFrames == {512}
Indexes == 0..2

VARIABLES
    startupCount,  \* calls of caml_startup made so far
    named,         \* names registered in the runtime's named-value table
    cache,         \* the function-static "const value *" of each callback
    factoryHeld,   \* the host has obtained &s_factory
    mem,           \* per plugin pointer: "unalloc", "live" or "freed"
    plug,          \* per plugin pointer: contents of clap_plugin_t + state
    roots,         \* plugin pointers whose &state->ocaml_plugin is a GC root
    hist,          \* per live plugin: init returned true; activate returned
                   \* true since the last deactivate; start_processing
                   \* returned true since the last stop_processing
    crashed,       \* the process was aborted by a fault
    lastCall,      \* the most recent host call and everything it did
    thr            \* per host thread: where it stands inside a callback

vars == <<startupCount, named, cache, factoryHeld, mem, plug, roots, hist,
          crashed, lastCall, thr>>

\* ---- value conversion of the OCaml C interface: Val_int(x) is (x << 1) + 1 ----
Val_int(n) == 2 * n + 1

\* ---- records ----
\* a callback into the runtime: the named value called, the arguments
\* passed and the value returned
NoRt == [name |-> "none", args |-> <<>>, res |-> 0]
Rt(n, a, r) == [name |-> n, args |-> a, res |-> r]

NoHist == [initOk |-> FALSE, active |-> FALSE, started |-> FALSE]

\* what a callback found when it was entered: the block's allocation
\* status, the stored handle, whether it was a root, and the host's record
Pre(i) == [mem |-> mem[i], handle |-> plug[i].ocaml_plugin,
           root |-> i \in roots, hist |-> hist[i]]
NoPre == [mem |-> "unalloc", handle |-> 0, root |-> FALSE, hist |-> NoHist]

\* a host call: its name, the pointer it was made on, its integer and
\* string arguments, its integer and string results, the runtime callback
\* it made, whether it called caml_named_value, and the fault it committed
Call(op, i, pre) ==
    [op |-> op, inst |-> i, args |-> <<>>, sarg |-> "", ret |-> 0,
     sret |-> "", rt |-> NoRt, looked |-> FALSE, fault |-> "none",
     pre |-> pre]

\* calloc'ed blocks are zero; an unallocated slot is shown the same way
ZeroPlug == [ocaml_plugin |-> 0, host |-> NULL, desc |-> ""]

\* ---- the lazily filled static pointer of each callback ----
\* if (p == NULL) p = caml_named_value(name);
\* the pointer declared without "static": looked up on every call
Looked_always(n) == TRUE
Looked(n) == ~cache[n]
\* the callback placed inside the first-use block: a cached pointer is
\* never called
Lookup_once(n) == ~cache[n] /\ n \in named
Lookup(n) == IF cache[n] THEN TRUE ELSE n \in named
CacheFill(n) == [cache EXCEPT ![n] = Lookup(n)]

\* ---- reads of a plugin's memory ----
\* a read of a freed block may return anything
ReadHandle(i) ==
    IF mem[i] = "live" THEN {plug[i].ocaml_plugin} ELSE RuntimeValues
UseFault(i) == IF mem[i] = "freed" THEN "use_after_free" ELSE "none"

\* the value returned by the callback is dropped
Store_lost(i, v) == plug
\* the handle kept in one place for all plugins
Store_all(i, v) == [j \in DOMAIN plug |-> [plug[j] EXCEPT !.ocaml_plugin = v]]
\* state->ocaml_plugin = v; a store into a freed block is lost
Store(i, v) ==
    IF mem[i] = "live" THEN [plug EXCEPT ![i].ocaml_plugin = v] ELSE plug

\* the host's record of a plugin is kept while the plugin is live
Note(i, h) == IF mem[i] = "live" THEN [hist EXCEPT ![i] = h] ELSE hist

\* host threads; a thread outside every callback is idle.  Inside a
\* callback it holds the callback's name, what caml_named_value gave it,
\* what its last load of the static pointer gave it, and what it called
\* through.
Threads == 1..(MaxInst + 1)
IdleThr == [pc |-> "idle", op |-> "none", found |-> FALSE, ptr |-> "null",
            called |-> "none"]

Init ==
    /\ thr = [t \in Threads |-> IdleThr]
    /\ startupCount = 0
    /\ named = {}
    /\ cache = [n \in Names |-> FALSE]
    /\ factoryHeld = FALSE
    /\ mem = [i \in Insts |-> "unalloc"]
    /\ plug = [i \in Insts |-> ZeroPlug]
    /\ roots = {}
    /\ hist = [i \in Insts |-> NoHist]
    /\ crashed = FALSE
    /\ lastCall = Call("none", 0, NoPre)

\* ---- the embedded runtime ----

\* OCaml code run by the runtime registers a callback (Callback.register);
\* nothing runs before caml_startup
Register(n) ==
    /\ ~crashed
    /\ startupCount > 0
    /\ n \notin named
    /\ named' = named \cup {n}
    /\ UNCHANGED <<startupCount, cache, factoryHeld, mem, plug, roots, hist,
                   crashed, lastCall>>

\* ---- entry table ----

entry_init ==
    /\ ~crashed
    /\ startupCount < MaxStartup
    /\ startupCount' = startupCount + 1
    /\ lastCall' = [Call("entry_init", 0, NoPre) EXCEPT !.ret = 1]
    /\ UNCHANGED <<named, cache, factoryHeld, mem, plug, roots, hist, crashed>>

entry_deinit ==
    /\ ~crashed
    /\ lastCall' = Call("entry_deinit", 0, NoPre)
    /\ UNCHANGED <<startupCount, named, cache, factoryHeld, mem, plug, roots,
                   hist, crashed>>

entry_get_factory(fid) ==
    /\ ~crashed
    /\ factoryHeld' = (factoryHeld \/ fid = FactoryId)
    /\ lastCall' = [Call("get_factory", 0, NoPre) EXCEPT
                       !.sarg = fid,
                       !.ret = IF fid = FactoryId THEN 1 ELSE NULL]
    /\ UNCHANGED <<startupCount, named, cache, mem, plug, roots, hist, crashed>>

\* ---- factory ----

factory_get_plugin_count ==
    /\ ~crashed
    /\ factoryHeld
    /\ lastCall' = [Call("get_plugin_count", 0, NoPre) EXCEPT
                       !.ret = PluginCount]
    /\ UNCHANGED <<startupCount, named, cache, factoryHeld, mem, plug, roots,
                   hist, crashed>>

\* the index compared with the count the wrong way
DescriptorAt_offbyone(index) == IF index <= PluginCount THEN DescriptorId ELSE ""
\* the descriptor returned is shown by its id, "" for NULL
DescriptorAt(index) == IF index = 0 THEN DescriptorId ELSE ""

factory_get_plugin_descriptor(index) ==
    /\ ~crashed
    /\ factoryHeld
    /\ lastCall' = [Call("get_plugin_descriptor", 0, NoPre) EXCEPT
                       !.args = <<index>>,
                       !.sret = DescriptorAt(index)]
    /\ UNCHANGED <<startupCount, named, cache, factoryHeld, mem, plug, roots,
                   hist, crashed>>

\* strcmp's result read the wrong way round
IdMismatch_inverted(plugin_id) == plugin_id = DescriptorId
\* strcmp(plugin_id, s_descriptor.id) != 0
IdMismatch(plugin_id) == plugin_id # DescriptorId

\* the block calloc returns: the first one never handed out
NextSlot ==
    CHOOSE i \in DOMAIN mem :
        mem[i] = "unalloc" /\ \A j \in 1..(i - 1) : mem[j] # "unalloc"

factory_create_plugin(host, plugin_id) ==
    /\ ~crashed
    /\ factoryHeld
    /\ IF IdMismatch(plugin_id)
       THEN /\ lastCall' = [Call("create_plugin", 0, NoPre) EXCEPT
                               !.args = <<host>>, !.sarg = plugin_id,
                               !.ret = NULL]
            /\ UNCHANGED <<mem, plug, hist>>
       ELSE /\ \E i \in DOMAIN mem : mem[i] = "unalloc"
            /\ LET i == NextSlot IN
               /\ mem' = [mem EXCEPT ![i] = "live"]
               /\ plug' = [plug EXCEPT ![i] = [ocaml_plugin |-> Val_unit,
                                               host |-> host,
                                               desc |-> DescriptorId]]
               /\ hist' = [hist EXCEPT ![i] = NoHist]
               /\ lastCall' = [Call("create_plugin", i, Pre(i)) EXCEPT
                                  !.args = <<host>>, !.sarg = plugin_id,
                                  !.ret = i]
    /\ UNCHANGED <<startupCount, named, cache, factoryHeld, roots, crashed>>

\* ---- plugin callbacks ----

\* return true / return false
InitRet(found) == IF found THEN 1 ELSE 0

plugin_init(i) ==
    /\ ~crashed
    /\ mem[i] # "unalloc"
    /\ cache' = CacheFill(N_INIT)
    /\ IF Lookup(N_INIT)
       THEN \E v \in RuntimeValues :
               /\ plug' = Store(i, v)
               /\ roots' = roots \cup {i}
               /\ hist' = Note(i, [hist[i] EXCEPT !.initOk = TRUE])
               /\ lastCall' = [Call("init", i, Pre(i)) EXCEPT
                                  !.ret = InitRet(TRUE),
                                  !.rt = Rt(N_INIT, <<Val_unit>>, v),
                                  !.looked = Looked(N_INIT),
                                  !.fault = UseFault(i)]
       ELSE /\ lastCall' = [Call("init", i, Pre(i)) EXCEPT
                               !.ret = InitRet(FALSE),
                               !.looked = Looked(N_INIT),
                               !.fault = UseFault(i)]
            /\ UNCHANGED <<plug, roots, hist>>
    /\ UNCHANGED <<startupCount, named, factoryHeld, mem, crashed>>

\* free() of a block: a second free of the same block is a fault
FreeFault(i) == IF mem[i] = "freed" THEN "double_free" ELSE "none"

plugin_destroy(i) ==
    /\ ~crashed
    /\ mem[i] # "unalloc"
    /\ cache' = CacheFill(N_DESTROY)
    /\ \E h \in ReadHandle(i) :
          IF Lookup(N_DESTROY) /\ h # Val_unit
          THEN /\ roots' = roots \ {i}
               /\ lastCall' = [Call("destroy", i, Pre(i)) EXCEPT
                                  !.rt = Rt(N_DESTROY, <<h>>, Val_unit),
                                  !.looked = Looked(N_DESTROY),
                                  !.fault = FreeFault(i)]
          ELSE /\ lastCall' = [Call("destroy", i, Pre(i)) EXCEPT
                                  !.looked = Looked(N_DESTROY),
                                  !.fault = FreeFault(i)]
               /\ UNCHANGED roots
    /\ mem' = [mem EXCEPT ![i] = "freed"]
    /\ hist' = Note(i, NoHist)
    /\ UNCHANGED <<startupCount, named, factoryHeld, plug, crashed>>

\* min_frames passed where max_frames belongs
ActivateArgs_min(h, sample_rate, min_frames, max_frames) ==
    <<h, sample_rate, Val_int(min_frames)>>
\* value args[3] = { state->ocaml_plugin, caml_copy_double(sample_rate),
\*                   Val_int(max_frames) }
ActivateArgs(h, sample_rate, min_frames, max_frames) ==
    <<h, sample_rate, Val_int(max_frames)>>

\* the final return says true as well
ActivateRet_true(found) == 1
\* return true / return false
ActivateRet(found) == IF found THEN 1 ELSE 0

plugin_activate(i, sample_rate, min_frames, max_frames) ==
    /\ ~crashed
    /\ mem[i] # "unalloc"
    /\ cache' = CacheFill(N_ACTIVATE)
    /\ IF Lookup(N_ACTIVATE)
       THEN \E h \in ReadHandle(i) :
               /\ hist' = Note(i, [hist[i] EXCEPT !.active = TRUE])
               /\ lastCall' = [Call("activate", i, Pre(i)) EXCEPT
                                  !.args = <<sample_rate, min_frames, max_frames>>,
                                  !.ret = ActivateRet(TRUE),
                                  !.rt = Rt(N_ACTIVATE,
                                            ActivateArgs(h, sample_rate,
                                                         min_frames, max_frames),
                                            Val_unit),
                                  !.looked = Looked(N_ACTIVATE),
                                  !.fault = UseFault(i)]
       ELSE /\ lastCall' = [Call("activate", i, Pre(i)) EXCEPT
                               !.args = <<sample_rate, min_frames, max_frames>>,
                               !.ret = ActivateRet(FALSE),
                               !.looked = Looked(N_ACTIVATE),
                               !.fault = UseFault(i)]
            /\ UNCHANGED hist
    /\ UNCHANGED <<startupCount, named, factoryHeld, mem, plug, roots, crashed>>

plugin_deactivate(i) ==
    /\ ~crashed
    /\ mem[i] # "unalloc"
    /\ cache' = CacheFill(N_DEACTIVATE)
    /\ IF Lookup(N_DEACTIVATE)
       THEN \E h \in ReadHandle(i) :
               lastCall' = [Call("deactivate", i, Pre(i)) EXCEPT
                               !.rt = Rt(N_DEACTIVATE, <<h>>, Val_unit),
                               !.looked = Looked(N_DEACTIVATE),
                               !.fault = UseFault(i)]
       ELSE lastCall' = [Call("deactivate", i, Pre(i)) EXCEPT
                            !.looked = Looked(N_DEACTIVATE),
                            !.fault = UseFault(i)]
    /\ hist' = Note(i, [hist[i] EXCEPT !.active = FALSE])
    /\ UNCHANGED <<startupCount, named, factoryHeld, mem, plug, roots, crashed>>

plugin_start_processing(i) ==
    /\ ~crashed
    /\ mem[i] # "unalloc"
    /\ hist' = Note(i, [hist[i] EXCEPT !.started = TRUE])
    /\ lastCall' = [Call("start_processing", i, Pre(i)) EXCEPT !.ret = 1]
    /\ UNCHANGED <<startupCount, named, cache, factoryHeld, mem, plug, roots,
                   crashed>>

plugin_stop_processing(i) ==
    /\ ~crashed
    /\ mem[i] # "unalloc"
    /\ hist' = Note(i, [hist[i] EXCEPT !.started = FALSE])
    /\ lastCall' = Call("stop_processing", i, Pre(i))
    /\ UNCHANGED <<startupCount, named, cache, factoryHeld, mem, plug, roots,
                   crashed>>

\* a reset that drops the handle
plugin_reset_unbind(i) ==
    /\ ~crashed
    /\ mem[i] # "unalloc"
    /\ plug' = [plug EXCEPT ![i].ocaml_plugin = Val_unit]
    /\ lastCall' = Call("reset", i, Pre(i))
    /\ UNCHANGED <<startupCount, named, cache, factoryHeld, mem, roots,
                   hist, crashed>>

plugin_reset(i) ==
    /\ ~crashed
    /\ mem[i] # "unalloc"
    /\ lastCall' = Call("reset", i, Pre(i))
    /\ UNCHANGED <<startupCount, named, cache, factoryHeld, mem, plug, roots,
                   hist, crashed>>

\* an unresolved entry point reported to the host as an error
ProcessRet_error(found) == IF found THEN PROCESS_CONTINUE ELSE PROCESS_CONTINUE - 1
\* return 0, whether or not the callback was made
ProcessRet(found) == PROCESS_CONTINUE

plugin_process(i) ==
    /\ ~crashed
    /\ mem[i] # "unalloc"
    /\ cache' = CacheFill(N_PROCESS)
    /\ IF Lookup(N_PROCESS)
       THEN \E h \in ReadHandle(i) :
               lastCall' = [Call("process", i, Pre(i)) EXCEPT
                               !.ret = ProcessRet(TRUE),
                               !.rt = Rt(N_PROCESS, <<h>>, Val_unit),
                               !.looked = Looked(N_PROCESS),
                               !.fault = UseFault(i)]
       ELSE lastCall' = [Call("process", i, Pre(i)) EXCEPT
                            !.ret = ProcessRet(FALSE),
                            !.looked = Looked(N_PROCESS),
                            !.fault = UseFault(i)]
    /\ UNCHANGED <<startupCount, named, factoryHeld, mem, plug, roots, hist,
                   crashed>>

plugin_get_extension(i, id) ==
    /\ ~crashed
    /\ mem[i] # "unalloc"
    /\ lastCall' = [Call("get_extension", i, Pre(i)) EXCEPT
                       !.sarg = id, !.ret = NULL]
    /\ UNCHANGED <<startupCount, named, cache, factoryHeld, mem, plug, roots,
                   hist, crashed>>

plugin_on_main_thread(i) ==
    /\ ~crashed
    /\ mem[i] # "unalloc"
    /\ lastCall' = Call("on_main_thread", i, Pre(i))
    /\ UNCHANGED <<startupCount, named, cache, factoryHeld, mem, plug, roots,
                   hist, crashed>>

\* a callback that dereferences a freed plugin may instead abort the process
\* (the allocator detects the double free, or the stale pointer traps)
FreedAbort(i, op) ==
    /\ ~crashed
    /\ mem[i] = "freed"
    /\ crashed' = TRUE
    /\ lastCall' = [Call(op, i, Pre(i)) EXCEPT !.fault = "abort"]
    /\ UNCHANGED <<startupCount, named, cache, factoryHeld, mem, plug, roots,
                   hist>>

DerefOps == {"init", "destroy", "activate", "deactivate", "process"}

Next ==
    \/ \E n \in Names : Register(n) /\ UNCHANGED thr
    \/ entry_init /\ UNCHANGED thr
    \/ entry_deinit /\ UNCHANGED thr
    \/ \E fid \in FactoryIds : entry_get_factory(fid) /\ UNCHANGED thr
    \/ factory_get_plugin_count /\ UNCHANGED thr
    \/ \E index \in Indexes : factory_get_plugin_descriptor(index) /\ UNCHANGED thr
    \/ \E host \in Hosts, id \in PluginIds : factory_create_plugin(host, id) /\ UNCHANGED thr
    \/ \E i \in Insts : plugin_init(i) /\ UNCHANGED thr
    \/ \E i \in Insts : plugin_destroy(i) /\ UNCHANGED thr
    \/ \E i \in Insts, sr \in SampleRates, mn \in MinFrames, mx \in MaxFrames :
          plugin_activate(i, sr, mn, mx) /\ UNCHANGED thr
    \/ \E i \in Insts : plugin_deactivate(i) /\ UNCHANGED thr
    \/ \E i \in Insts : plugin_start_processing(i) /\ UNCHANGED thr
    \/ \E i \in Insts : plugin_stop_processing(i) /\ UNCHANGED thr
    \/ \E i \in Insts : plugin_reset(i) /\ UNCHANGED thr
    \/ \E i \in Insts : plugin_process(i) /\ UNCHANGED thr
    \/ \E i \in Insts, id \in {"clap.params"} : plugin_get_extension(i, id) /\ UNCHANGED thr
    \/ \E i \in Insts : plugin_on_main_thread(i) /\ UNCHANGED thr
    \/ \E i \in Insts, op \in DerefOps : FreedAbort(i, op) /\ UNCHANGED thr

Spec == Init /\ [][Next]_vars

\* ---- several plugins at once ----
\* The host has called entry_init, the runtime has registered its five
\* callbacks and the host has fetched the factory; from there it creates
\* plugins and drives each through the callbacks that reach the runtime,
\* using no plugin after its destroy.
Insts2 == 1..(MaxInst + 1)

Init2 ==
    /\ thr = [t \in Threads |-> IdleThr]
    /\ startupCount = 1
    /\ named = Names
    /\ cache = [n \in Names |-> FALSE]
    /\ factoryHeld = TRUE
    /\ mem = [i \in Insts2 |-> "unalloc"]
    /\ plug = [i \in Insts2 |-> ZeroPlug]
    /\ roots = {}
    /\ hist = [i \in Insts2 |-> NoHist]
    /\ crashed = FALSE
    /\ lastCall = [Call("get_factory", 0, NoPre) EXCEPT
                      !.sarg = FactoryId, !.ret = 1]

Next2 ==
    \/ \E host \in Hosts, id \in PluginIds : factory_create_plugin(host, id) /\ UNCHANGED thr
    \/ \E i \in Insts2 : mem[i] = "live" /\ plugin_init(i) /\ UNCHANGED thr
    \/ \E i \in Insts2 : mem[i] = "live" /\ plugin_destroy(i) /\ UNCHANGED thr
    \/ \E i \in Insts2, sr \in SampleRates, mn \in MinFrames, mx \in MaxFrames :
          mem[i] = "live" /\ plugin_activate(i, sr, mn, mx) /\ UNCHANGED thr
    \/ \E i \in Insts2 : mem[i] = "live" /\ plugin_deactivate(i) /\ UNCHANGED thr
    \/ \E i \in Insts2 : mem[i] = "live" /\ plugin_process(i) /\ UNCHANGED thr

Spec2 == Init2 /\ [][Next2]_vars

\* ---- properties ----

Forwarded == lastCall.rt.name # "none"
OnLive == lastCall.pre.mem = "live"
OnFreed == lastCall.pre.mem = "freed"

\* C1: destroy is idempotent: a second destroy on the same plugin releases
\* no block a second time, un-pins nothing and forwards no destroy notice,
\* and is absorbed without a fault.
C1_DestroyIdempotent ==
    (lastCall.op = "destroy" /\ OnFreed) =>
        /\ lastCall.fault = "none"
        /\ ~Forwarded
        /\ ~crashed

\* C2: a plugin's handle is a GC root exactly from its successful init until
\* its destroy, whichever entry points are registered: the roots are the
\* live plugins whose init has succeeded, and a freed plugin leaves no root.
C2_PinnedExactlyWhileInitialized ==
    \A i \in Insts : (i \in roots) <=> (mem[i] = "live" /\ hist[i].initOk)

\* C3: activate, deactivate, process and destroy call into the runtime only
\* on a plugin whose init has succeeded; on a plugin still in Created they
\* make no runtime call.
C3_NoCallWithUnboundHandle ==
    (lastCall.op \in {"activate", "deactivate", "process", "destroy"} /\ Forwarded)
        => (OnLive /\ lastCall.pre.hist.initOk)

\* C4: a process call made while the plugin is not processing (before
\* start_processing or after stop_processing) forwards no tick to the runtime
\* and does not put the plugin into Processing.
C4_ProcessOnlyWhenProcessing ==
    (lastCall.op = "process" /\ OnLive /\ ~lastCall.pre.hist.started) =>
        /\ ~Forwarded
        /\ ~hist[lastCall.inst].started

\* C5: Destroyed is terminal: a call made on a plugin after its destroy does
\* not succeed, does not reach the runtime and touches no released memory.
LifecycleOps ==
    {"init", "activate", "deactivate", "start_processing", "process",
     "stop_processing"}
C5_DestroyedIsTerminal ==
    (lastCall.op \in LifecycleOps /\ OnFreed) =>
        /\ lastCall.op \in {"init", "activate", "start_processing"}
              => lastCall.ret = 0
        /\ ~Forwarded
        /\ lastCall.fault = "none"

\* C8: at most one handle is created per plugin: an init on a plugin whose
\* init has already succeeded does not call the runtime's init again and
\* leaves the bound handle as it was.
C8_AtMostOneHandle ==
    (lastCall.op = "init" /\ OnLive /\ lastCall.pre.hist.initOk) =>
        /\ ~Forwarded
        /\ plug[lastCall.inst].ocaml_plugin = lastCall.pre.handle

\* a step that is the host call op (on plugin i)
CallStep(op) == lastCall' # lastCall /\ lastCall'.op = op
CallStepOn(op, i) == CallStep(op) /\ lastCall'.inst = i

\* C6: create is all-or-nothing on the identity: with an id other than the
\* descriptor's it returns NULL and changes nothing; with the descriptor's id
\* it returns a new plugin in Created: handle = Val_unit, not a root, the
\* shared descriptor, the host given, nothing recorded, others untouched.
C6_CreateAllOrNothing ==
    [][CallStep("create_plugin") =>
          IF lastCall'.sarg # DescriptorId
          THEN /\ lastCall'.ret = NULL
               /\ UNCHANGED <<mem, plug, roots, hist, cache, named>>
          ELSE LET i == lastCall'.ret IN
               /\ i \in Insts
               /\ mem[i] = "unalloc"
               /\ mem'[i] = "live"
               /\ plug'[i] = [ocaml_plugin |-> Val_unit,
                              host |-> lastCall'.args[1],
                              desc |-> DescriptorAt(0)]
               /\ i \notin roots'
               /\ hist'[i] = NoHist
               /\ \A j \in Insts \ {i} : mem'[j] = mem[j] /\ plug'[j] = plug[j]
               /\ UNCHANGED <<roots, cache, named>>]_vars

\* a create with an unknown id was refused while a created plugin exists
C6_Witness ==
    /\ lastCall.op = "create_plugin"
    /\ lastCall.sarg # DescriptorId
    /\ lastCall.ret = NULL
    /\ \E i \in Insts : mem[i] = "live" /\ plug[i].host = 12

\* C7: init on a plugin in Created: with daw_bridge_init unregistered it
\* returns false, calls nothing and leaves the plugin in Created, handle
\* Val_unit and no root; with it registered it returns true and the plugin
\* holds the value the runtime returned, registered as a root.
C7_InitFromCreated ==
    [][\A i \in Insts :
          (CallStepOn("init", i) /\ mem[i] = "live" /\ ~hist[i].initOk) =>
             IF N_INIT \notin named
             THEN /\ lastCall'.ret = 0
                  /\ lastCall'.rt = NoRt
                  /\ UNCHANGED <<mem, plug, roots, hist>>
                  /\ plug[i].ocaml_plugin = Val_unit
                  /\ i \notin roots
             ELSE /\ lastCall'.ret = 1
                  /\ lastCall'.rt.name = N_INIT
                  /\ plug'[i].ocaml_plugin = lastCall'.rt.res
                  /\ i \in roots'
                  /\ hist'[i].initOk
                  /\ mem'[i] = "live"]_vars

\* an init failed on a plugin in Created, which is still in Created
C7_Witness ==
    /\ lastCall.op = "init"
    /\ lastCall.ret = 0
    /\ OnLive
    /\ ~lastCall.pre.hist.initOk
    /\ mem[lastCall.inst] = "live"
    /\ ~hist[lastCall.inst].initOk

\* C9: activate on a plugin already activated (no deactivate in between) is
\* idempotent, on every such call: it returns true, the plugin stays
\* activated and the runtime receives the handle, the new sample rate and
\* the new maximum block size.
C9_ActivateTwiceIdempotent ==
    (lastCall.op = "activate" /\ OnLive /\ lastCall.pre.hist.active) =>
        /\ lastCall.ret = 1
        /\ lastCall.rt.name = N_ACTIVATE
        /\ lastCall.rt.args = <<lastCall.pre.handle, lastCall.args[1],
                                2 * lastCall.args[3] + 1>>
        /\ hist[lastCall.inst].active
        /\ plug[lastCall.inst].ocaml_plugin = lastCall.pre.handle

\* a second activate in a row, with another sample rate than the usual one
C9_Witness ==
    /\ lastCall.op = "activate"
    /\ OnLive
    /\ lastCall.pre.hist.active
    /\ lastCall.args[1] = 48000
    /\ lastCall.ret = 1

\* C10: activation failure is soft and retryable: with daw_bridge_activate
\* unregistered, activate returns false, calls nothing and changes nothing
\* (not even its cache); once the name is registered, activate on the same
\* plugin returns true and forwards the call with the plugin's handle.
C10_ActivateFailureRetryable ==
    [][\A i \in Insts :
          (CallStepOn("activate", i) /\ mem[i] = "live") =>
             IF N_ACTIVATE \notin named
             THEN /\ lastCall'.ret = 0
                  /\ lastCall'.rt = NoRt
                  /\ UNCHANGED <<mem, plug, roots, hist, cache>>
             ELSE /\ lastCall'.ret = 1
                  /\ lastCall'.rt.name = N_ACTIVATE
                  /\ lastCall'.rt.args[1] = plug[i].ocaml_plugin
                  /\ UNCHANGED <<mem, plug, roots>>]_vars

\* an activate has failed on a live plugin and the name has been registered
\* since: the host's retry is the next call
C10_Witness ==
    /\ lastCall.op = "activate"
    /\ lastCall.ret = 0
    /\ OnLive
    /\ mem[lastCall.inst] = "live"
    /\ N_ACTIVATE \in named

\* C11: every process call on a plugin returns 0 ("continue"); when the
\* static pointer is non-NULL after the lazy lookup the call makes one
\* callback of daw_bridge_process with the plugin's stored handle, and when
\* it is NULL no callback is made.
C11_ProcessAlwaysContinues ==
    (lastCall.op = "process" /\ OnLive) =>
        /\ lastCall.ret = 0
        /\ IF cache[N_PROCESS]
           THEN lastCall.rt = [name |-> N_PROCESS,
                               args |-> <<lastCall.pre.handle>>,
                               res |-> Val_unit]
           ELSE lastCall.rt = NoRt
        /\ plug[lastCall.inst].ocaml_plugin = lastCall.pre.handle

\* a tick was forwarded with the handle of an initialized plugin
C11_Witness ==
    /\ lastCall.op = "process"
    /\ OnLive
    /\ lastCall.pre.hist.initOk
    /\ lastCall.pre.handle # Val_unit
    /\ lastCall.rt.name = N_PROCESS
    /\ lastCall.ret = 0

\* C12: deactivate cannot fail and is forwarded only from Activated: a
\* deactivate forwards a notice only on a plugin that is activated; there,
\* with the entry point resolved, it forwards one notice with the plugin's
\* handle; the handle and its root are left as they were.
C12_DeactivateOnlyFromActivated ==
    (lastCall.op = "deactivate" /\ OnLive) =>
        /\ Forwarded => lastCall.pre.hist.active
        /\ (lastCall.pre.hist.active /\ cache[N_DEACTIVATE]) =>
              lastCall.rt = [name |-> N_DEACTIVATE,
                             args |-> <<lastCall.pre.handle>>,
                             res |-> Val_unit]
        /\ ~cache[N_DEACTIVATE] => ~Forwarded
        /\ plug[lastCall.inst].ocaml_plugin = lastCall.pre.handle
        /\ (lastCall.inst \in roots) <=> lastCall.pre.root

\* C13: the runtime is bootstrapped exactly once and before any factory or
\* plugin operation: caml_startup has run at most once, and no factory or
\* plugin call has been served while it has not run at all.
EntryOps == {"none", "entry_init", "entry_deinit", "get_factory"}
C13_BootstrapOnceBeforeUse ==
    /\ startupCount <= 1
    /\ lastCall.op \notin EntryOps => startupCount >= 1

C19_SentinelAgreesWithInit ==
    (lastCall.op = "destroy" /\ OnLive /\ cache[N_DESTROY]) =>
        /\ Forwarded <=> lastCall.pre.hist.initOk
        /\ lastCall.inst \notin roots

\* everything but the record of calls and what the host has been told
state == <<startupCount, named, cache, factoryHeld, mem, plug, roots, crashed>>

\* C14: the descriptor registry is fixed and pure: get_plugin_count returns
\* 1, get_plugin_descriptor returns the one descriptor for index 0 and NULL
\* for every index from 1 on, in every reachable state, and neither call
\* changes anything.
C14_RegistryFixedAndPure ==
    [][/\ CallStep("get_plugin_count") =>
             /\ lastCall'.ret = 1
             /\ UNCHANGED <<state, hist>>
       /\ CallStep("get_plugin_descriptor") =>
             /\ lastCall'.sret = IF lastCall'.args[1] = 0
                                 THEN "com.dancer.daw-bridge" ELSE ""
             /\ UNCHANGED <<state, hist>>]_vars

\* index 1 got NULL after a plugin went through init and destroy
C14_Witness ==
    /\ lastCall.op = "get_plugin_descriptor"
    /\ lastCall.args = <<1>>
    /\ lastCall.sret = ""
    /\ \E i \in Insts : mem[i] = "freed" /\ plug[i].ocaml_plugin # Val_unit

\* the named value each callback looks up
EntryName(op) ==
    CASE op = "init" -> N_INIT
      [] op = "destroy" -> N_DESTROY
      [] op = "activate" -> N_ACTIVATE
      [] op = "deactivate" -> N_DEACTIVATE
      [] op = "process" -> N_PROCESS

\* C15: each entry point is looked up until found and never again: a call
\* performs the lookup exactly when its static pointer is still NULL; the
\* pointer becomes non-NULL exactly when it was already or the name is
\* registered at that call; a call uses no other callable than its own and
\* touches no other static pointer; a pointer changes only from NULL to
\* non-NULL, and only in a call of its own callback that looked the
\* registered name up.
C15_ResolvedOnceAbsentRechecked ==
    [][/\ \A op \in DerefOps :
             (CallStep(op) /\ lastCall'.fault # "abort") =>
                LET n == EntryName(op) IN
                /\ lastCall'.looked = ~cache[n]
                /\ cache'[n] = (cache[n] \/ n \in named)
                /\ \A m \in Names \ {n} : cache'[m] = cache[m]
                /\ lastCall'.rt.name \in {"none", n}
                /\ op # "destroy" => (lastCall'.rt.name = n <=> cache'[n])
       /\ \A n \in Names :
             cache'[n] # cache[n] =>
                /\ lastCall'.op \in DerefOps
                /\ n = EntryName(lastCall'.op)
                /\ lastCall'.looked
                /\ n \in named
                /\ cache'[n]]_vars

\* a call went through the cached pointer without a lookup
C15_Witness ==
    /\ lastCall.op = "process"
    /\ ~lastCall.looked
    /\ lastCall.rt.name = N_PROCESS
    /\ cache[N_PROCESS]

\* C16: start_processing, stop_processing, reset, get_extension and
\* on_main_thread make no runtime call and no lookup and leave handles,
\* roots, static pointers and allocations as they were; start_processing
\* returns true and get_extension returns NULL.
HookOps ==
    {"start_processing", "stop_processing", "reset", "get_extension",
     "on_main_thread"}
C16_HooksTouchNothing ==
    [][\A op \in HookOps :
          CallStep(op) =>
             /\ lastCall'.rt = NoRt
             /\ ~lastCall'.looked
             /\ lastCall'.fault = "none"
             /\ UNCHANGED state
             /\ op = "start_processing" => lastCall'.ret = 1
             /\ op = "get_extension" => lastCall'.ret = 0]_vars

\* start_processing returned true on an initialized plugin, still a root
C16_Witness ==
    /\ lastCall.op = "start_processing"
    /\ lastCall.ret = 1
    /\ OnLive
    /\ lastCall.pre.root
    /\ lastCall.inst \in roots
    /\ plug[lastCall.inst].ocaml_plugin # Val_unit

\* C20: plugins are isolated: a callback on one plugin passes that plugin's
\* own handle to the runtime (init passes unit) and leaves every other
\* plugin's handle, host, root and allocation as they were; create touches
\* no existing plugin.
C20_PluginsIsolated ==
    [][/\ \A i \in Insts2 : \A op \in DerefOps :
             (CallStepOn(op, i) /\ mem[i] = "live") =>
                /\ lastCall'.rt.name # "none" =>
                      lastCall'.rt.args[1] =
                         IF op = "init" THEN Val_unit ELSE plug[i].ocaml_plugin
                /\ \A j \in Insts2 \ {i} :
                      /\ plug'[j] = plug[j]
                      /\ mem'[j] = mem[j]
                      /\ (j \in roots') <=> (j \in roots)
                      /\ hist'[j] = hist[j]
       /\ CallStep("create_plugin") =>
             \A j \in Insts2 :
                mem[j] # "unalloc" =>
                   /\ plug'[j] = plug[j]
                   /\ mem'[j] = mem[j]
                   /\ (j \in roots') <=> (j \in roots)]_vars

\* two initialized plugins with different handles, a tick forwarded for the
\* first with its own handle
C20_Witness ==
    /\ lastCall.op = "process"
    /\ lastCall.inst = 1
    /\ mem[1] = "live" /\ mem[2] = "live"
    /\ 1 \in roots /\ 2 \in roots
    /\ plug[1].ocaml_plugin # Val_unit
    /\ plug[2].ocaml_plugin \notin {Val_unit, plug[1].ocaml_plugin}
    /\ lastCall.rt.args = <<plug[1].ocaml_plugin>>

\* ---- two host threads in the same callback ----
\* The callbacks that fill a static pointer on first use, taken one memory
\* access at a time.  Thread t works on plugin t.  The code takes no lock
\* and uses plain loads and stores of the static pointer.
RaceOps == {"activate", "process"}

\* the runtime is started, daw_bridge_init is registered and resolved, and
\* every plugin has been created and initialized
InitRace ==
    /\ thr = [t \in Threads |-> IdleThr]
    /\ startupCount = 1
    /\ named \in {S \in SUBSET Names : N_INIT \in S}
    /\ cache = [n \in Names |-> n = N_INIT]
    /\ factoryHeld = TRUE
    /\ mem = [i \in Insts2 |-> "live"]
    /\ \E host \in Hosts, h \in [Insts2 -> RuntimeValues \ {Val_unit}] :
          /\ plug = [i \in Insts2 |-> [ocaml_plugin |-> h[i], host |-> host,
                                      desc |-> DescriptorId]]
          /\ lastCall = [Call("init", MaxInst + 1,
                              [mem |-> "live", handle |-> Val_unit,
                               root |-> FALSE, hist |-> NoHist]) EXCEPT
                            !.ret = InitRet(TRUE),
                            !.rt = Rt(N_INIT, <<Val_unit>>, h[MaxInst + 1])]
    /\ roots = Insts2
    /\ hist = [i \in Insts2 |-> [NoHist EXCEPT !.initOk = TRUE]]
    /\ crashed = FALSE

\* A plain load of the static pointer of callback n by thread t.  Once the
\* pointer is stored every load gives it.  A load that overlaps another
\* thread's plain store of the pointer is a data race: it can give the old
\* NULL, the pointer, or a value that is neither.
StaticLoad(t, n) ==
    IF cache[n] THEN {"ptr"}
    ELSE IF \E u \in Threads \ {t} :
               /\ thr[u].pc = "storing"
               /\ EntryName(thr[u].op) = n
               /\ thr[u].found
         THEN {"null", "ptr", "torn"}
         ELSE {"null"}

RaceFrame ==
    UNCHANGED <<startupCount, named, factoryHeld, mem, plug, roots, hist,
                crashed, lastCall>>

\* the host enters plugin_activate or plugin_process on thread t
thread_enter(t, op) ==
    /\ thr[t].pc = "idle"
    /\ thr' = [thr EXCEPT ![t] = [IdleThr EXCEPT !.pc = "is_null", !.op = op]]
    /\ UNCHANGED cache
    /\ RaceFrame

\* if (ocaml_x == NULL)
static_is_null(t) ==
    /\ thr[t].pc = "is_null"
    /\ \E v \in StaticLoad(t, EntryName(thr[t].op)) :
          thr' = [thr EXCEPT ![t].ptr = v,
                             ![t].pc = IF v = "null" THEN "named_value"
                                       ELSE "not_null"]
    /\ UNCHANGED cache
    /\ RaceFrame

\* caml_named_value("daw_bridge_x")
caml_named_value(t) ==
    /\ thr[t].pc = "named_value"
    /\ thr' = [thr EXCEPT ![t].found = EntryName(thr[t].op) \in named,
                          ![t].pc = "store"]
    /\ UNCHANGED cache
    /\ RaceFrame

\* ocaml_x = ...: the plain store starts
static_store(t) ==
    /\ thr[t].pc = "store"
    /\ thr' = [thr EXCEPT ![t].pc = "storing"]
    /\ UNCHANGED cache
    /\ RaceFrame

\* the plain store is complete
static_stored(t) ==
    /\ thr[t].pc = "storing"
    /\ cache' = [cache EXCEPT ![EntryName(thr[t].op)] = thr[t].found]
    /\ thr' = [thr EXCEPT ![t].pc = "not_null"]
    /\ RaceFrame

\* if (ocaml_x != NULL)
static_not_null(t) ==
    /\ thr[t].pc = "not_null"
    /\ \E v \in StaticLoad(t, EntryName(thr[t].op)) :
          thr' = [thr EXCEPT ![t].ptr = v,
                             ![t].pc = IF v = "null" THEN "done"
                                       ELSE "callback"]
    /\ UNCHANGED cache
    /\ RaceFrame

\* caml_callback(*ocaml_x, ...) through the value the test loaded
caml_callback(t) ==
    /\ thr[t].pc = "callback"
    /\ thr' = [thr EXCEPT ![t].called = thr[t].ptr, ![t].pc = "done"]
    /\ UNCHANGED cache
    /\ RaceFrame

NextRace ==
    \/ \E t \in Threads, op \in RaceOps : thread_enter(t, op)
    \/ \E t \in Threads : static_is_null(t)
    \/ \E t \in Threads : caml_named_value(t)
    \/ \E t \in Threads : static_store(t)
    \/ \E t \in Threads : static_stored(t)
    \/ \E t \in Threads : static_not_null(t)
    \/ \E t \in Threads : caml_callback(t)

SpecRace == InitRace /\ [][NextRace]_vars

\* C18: when two threads make the first call of the same callback at the
\* same time, no thread calls through a pointer that is unset or partly
\* written, a thread that calls does so through the registered callable,
\* and once all threads have returned the static pointer holds what
\* caml_named_value gave.
C18_ConcurrentFirstUseSafe ==
    /\ \A t \in Threads :
          /\ thr[t].called \in {"none", "ptr"}
          /\ thr[t].called = "ptr" => EntryName(thr[t].op) \in named
    /\ (\A t \in Threads : thr[t].pc = "done") =>
          \A t \in Threads :
             cache[EntryName(thr[t].op)] = (EntryName(thr[t].op) \in named)

====
